---- MODULE Spec2Model ----
(***************************************************************************)
(* Scoring engine of hr-alerter: the posting store, the five dimension     *)
(* scorers and the composite scorer, as state machine over the tables the  *)
(* scorers read.  Text is a tuple of characters, a nullable column is      *)
(* NULL or Some(v), a date is a day number and `now` counts half days, so  *)
(* that julianday('now') has a fractional part.  The store-changing steps  *)
(* (insert_jobs, the company linking pass, save_signal and the two scoring *)
(* runs) and the company-name normaliser follow the scorers.               *)
(***************************************************************************)
EXTENDS Integers, Sequences, FiniteSets, TLC

VARIABLES job_postings, companies, now, result,
          signals, inserted, link_runs, raw_name, normalized,
          scored, run_log, report, hot_companies

vars == <<job_postings, companies, now, result,
          signals, inserted, link_runs, raw_name, normalized,
          scored, run_log, report, hot_companies>>

NULL == <<>>

Some(v) == <<v>>

Val(x) == x[1]

----------------------------------------------------------------------------
(* Bounds of the model *)

Today0 == 100

MaxTicks == 2

MaxPostings == 3

MaxVelPostings == 5

MaxSenPostings == 3

MaxIcpPostings == 3

MaxConPostings == 2

MaxScenarioPostings == 4

MaxRecPostings == 2

CompanyIds == 1..3

----------------------------------------------------------------------------
(* Text: str.lower() and the `in` substring test *)

UpperToLower ==
    ("A" :> "a") @@ ("B" :> "b") @@ ("C" :> "c") @@ ("D" :> "d") @@
    ("E" :> "e") @@ ("F" :> "f") @@ ("G" :> "g") @@ ("H" :> "h") @@
    ("I" :> "i") @@ ("J" :> "j") @@ ("K" :> "k") @@ ("L" :> "l") @@
    ("M" :> "m") @@ ("N" :> "n") @@ ("O" :> "o") @@ ("P" :> "p") @@
    ("Q" :> "q") @@ ("R" :> "r") @@ ("S" :> "s") @@ ("T" :> "t") @@
    ("U" :> "u") @@ ("V" :> "v") @@ ("W" :> "w") @@ ("X" :> "x") @@
    ("Y" :> "y") @@ ("Z" :> "z") @@ ("O_acute" :> "o_acute")

(* str.lower() is a per-character map, except that the dotted capital I   *)
(* (U+0130) becomes two code points, "i" and a combining dot, so that the  *)
(* lowered text is longer than the text                                    *)
SpecialCasing == ("I_dot" :> <<"i", "dot_above">>)

LowerChar(c) ==
    IF c \in DOMAIN SpecialCasing THEN SpecialCasing[c]
    ELSE IF c \in DOMAIN UpperToLower THEN <<UpperToLower[c]>>
    ELSE <<c>>

(* Number of code points of lower(s) that come from s[1..i] *)
LowerLen(s, i) ==
    i + Cardinality({ k \in 1..i : s[k] \in DOMAIN SpecialCasing })

lower(s) ==
    IF \E i \in 1..Len(s) : s[i] \in DOMAIN SpecialCasing
    THEN [j \in 1..LowerLen(s, Len(s)) |->
             LET i == CHOOSE i \in 1..Len(s) :
                          LowerLen(s, i - 1) < j /\ j <= LowerLen(s, i)
             IN  LowerChar(s[i])[j - LowerLen(s, i - 1)]]
    ELSE [i \in 1..Len(s) |->
             IF s[i] \in DOMAIN UpperToLower THEN UpperToLower[s[i]]
             ELSE s[i]]

contains(needle, hay) ==
    \E i \in 0..(Len(hay) - Len(needle)) :
        \A j \in 1..Len(needle) : hay[i + j] = needle[j]

WELLBEING_KEYWORDS == {
    <<"w", "e", "l", "l", "b", "e", "i", "n", "g">>,
    <<"d", "o", "b", "r", "o", "s", "t", "a", "n">>,
    <<"m", "e", "n", "t", "a", "l", " ", "h", "e", "a", "l", "t", "h">>,
    <<"z", "d", "r", "o", "w", "i", "e", " ", "p", "s", "y", "c", "h", "i", "c", "z", "n", "e">> }

EAP_KEYWORDS == {
    <<"e", "a", "p">>,
    <<"e", "m", "p", "l", "o", "y", "e", "e", " ", "a", "s", "s", "i", "s", "t", "a", "n", "c", "e">>,
    <<"w", "s", "p", "a", "r", "c", "i", "e", " ", "p", "r", "a", "c", "o", "w", "n", "i", "k", "o_acute", "w">> }

CULTURE_KEYWORDS == {
    <<"k", "u", "l", "t", "u", "r", "a", " ", "o", "r", "g", "a", "n", "i", "z", "a", "c", "y", "j", "n", "a">>,
    <<"e", "m", "p", "l", "o", "y", "e", "r", " ", "b", "r", "a", "n", "d", "i", "n", "g">>,
    <<"e", "m", "p", "l", "o", "y", "e", "e", " ", "e", "x", "p", "e", "r", "i", "e", "n", "c", "e">> }

TARGET_TITLES == {
    <<"H", "R", " ", "D", "i", "r", "e", "c", "t", "o", "r">>,
    <<"P", "e", "o", "p", "l", "e", " ", "&", " ", "C", "u", "l", "t", "u", "r", "e">>,
    <<"W", "e", "l", "l", "b", "e", "i", "n", "g">>,
    <<"E", "m", "p", "l", "o", "y", "e", "e", " ", "E", "x", "p", "e", "r", "i", "e", "n", "c", "e">>,
    <<"C", "H", "R", "O">>,
    <<"C", "P", "O">>,
    <<"H", "R", " ", "B", "u", "s", "i", "n", "e", "s", "s", " ", "P", "a", "r", "t", "n", "e", "r">>,
    <<"C", "u", "l", "t", "u", "r", "e", " ", "a", "n", "d", " ", "E", "n", "g", "a", "g", "e", "m", "e", "n", "t">> }
----------------------------------------------------------------------------
(* Texts the bounded stores are built from *)

Title_HR_Director ==
    <<"H", "R", " ", "D", "i", "r", "e", "c", "t", "o", "r">>

Title_HR_DIRECTOR ==
    <<"H", "R", " ", "D", "I", "R", "E", "C", "T", "O", "R">>

Title_Head_of_wellbeing ==
    <<"H", "e", "a", "d", " ", "o", "f", " ", "w", "e", "l", "l", "b", "e", "i", "n", "g">>

Title_HR_Manager ==
    <<"H", "R", " ", "M", "a", "n", "a", "g", "e", "r">>

Title_Koordynator ==
    <<"K", "o", "o", "r", "d", "y", "n", "a", "t", "o", "r", " ", "d", "s", ".", " ", "D", "o", "b", "r", "o", "s", "t", "a", "n", "u">>

Desc_Wellbeing_EAP ==
    <<"L", "e", "a", "d", " ", "w", "e", "l", "l", "b", "e", "i", "n", "g", " ", "a", "n", "d", " ", "E", "A", "P", " ", "p", "r", "o", "g", "r", "a", "m", "m", "e", ".">>

Desc_Dobrostan ==
    <<"K", "o", "o", "r", "d", "y", "n", "a", "t", "o", "r", " ", "o", "d", "p", "o", "w", "i", "e", "d", "z", "i", "a", "l", "n", "y", " ", "z", "a", " ", "d", "o", "b", "r", "o", "s", "t", "a", "n", " ", "p", "r", "a", "c", "o", "w", "n", "i", "k", "o", "w", ".">>

Desc_HR_ops ==
    <<"R", "e", "s", "p", "o", "n", "s", "i", "b", "l", "e", " ", "f", "o", "r", " ", "H", "R", " ", "o", "p", "e", "r", "a", "t", "i", "o", "n", "s", ".">>

Desc_Employer_Branding ==
    <<"M", "a", "n", "a", "g", "e", " ", "E", "m", "p", "l", "o", "y", "e", "r", " ", "B", "r", "a", "n", "d", "i", "n", "g">>

Desc_All_Three ==
    <<"M", "e", "n", "t", "a", "l", " ", "H", "e", "a", "l", "t", "h", ",", " ", "E", "A", "P", ",", " ", "E", "m", "p", "l", "o", "y", "e", "e", " ", "E", "x", "p", "e", "r", "i", "e", "n", "c", "e">>

Loc_Warszawa ==
    <<"W", "a", "r", "s", "z", "a", "w", "a">>

Loc_Krakow ==
    <<"K", "r", "a", "k", "o", "w">>

----------------------------------------------------------------------------
(* SQL helpers: date('now'), the window predicate and the posting filter *)

Today(nw) == nw \div 2

InWindow_past(p, nw, days) == p.post_date >= Today(nw) - days /\ p.post_date <= Today(nw)

InWindow(p, nw, days) == p.post_date >= Today(nw) - days

RelevantRows(postings, company_id) ==
    { i \in DOMAIN postings :
        /\ postings[i].company_id = Some(company_id)
        /\ postings[i].is_relevant = 1 }

CastInteger_round(halves) ==
    IF halves >= 0 THEN (halves + 1) \div 2 ELSE -((1 - halves) \div 2)

CastInteger(halves) ==
    IF halves >= 0 THEN halves \div 2 ELSE -((-halves) \div 2)

MinOf(S) == CHOOSE m \in S : \A x \in S : m <= x

MaxOf(S) == CHOOSE m \in S : \A x \in S : x <= m

----------------------------------------------------------------------------
(* Velocity *)

calculate_velocity_score_30d_for_7d(postings, nw, company_id) ==
    LET rows == RelevantRows(postings, company_id)
        count_30d == Cardinality({ i \in rows : InWindow(postings[i], nw, 30) })
        count_90d == Cardinality({ i \in rows : InWindow(postings[i], nw, 90) })
    IN  IF count_30d >= 3 THEN 40
        ELSE IF count_30d >= 2 THEN 20
        ELSE IF count_90d >= 2 THEN 10
        ELSE 0

calculate_velocity_score_strict_35(postings, nw, company_id) ==
    LET rows == RelevantRows(postings, company_id)
        count_7d == Cardinality({ i \in rows : InWindow(postings[i], nw, 7) })
        count_30d == Cardinality({ i \in rows : InWindow(postings[i], nw, 30) })
        count_90d == Cardinality({ i \in rows : InWindow(postings[i], nw, 90) })
    IN  IF count_7d >= 3 THEN 40
        ELSE IF count_30d > 5 THEN 35
        ELSE IF count_30d >= 3 THEN 30
        ELSE IF count_30d >= 2 THEN 20
        ELSE IF count_90d >= 2 THEN 10
        ELSE 0

calculate_velocity_score(postings, nw, company_id) ==
    LET rows == RelevantRows(postings, company_id)
        count_7d == Cardinality({ i \in rows : InWindow(postings[i], nw, 7) })
        count_30d == Cardinality({ i \in rows : InWindow(postings[i], nw, 30) })
        count_90d == Cardinality({ i \in rows : InWindow(postings[i], nw, 90) })
    IN  IF count_7d >= 3 THEN 40
        ELSE IF count_30d >= 5 THEN 35
        ELSE IF count_30d >= 3 THEN 30
        ELSE IF count_30d >= 2 THEN 20
        ELSE IF count_90d >= 2 THEN 10
        ELSE 0

----------------------------------------------------------------------------
(* Seniority mix *)

calculate_seniority_score_no_c_level(postings, nw, company_id) ==
    LET rows == { i \in RelevantRows(postings, company_id) :
                    /\ InWindow(postings[i], nw, 30)
                    /\ postings[i].seniority_level # NULL }
        levels == { Val(postings[i].seniority_level) : i \in rows }
        score == (IF "director" \in levels THEN 15 ELSE 0)
                 + (IF "senior" \in levels THEN 5 ELSE 0)
                 + (IF Cardinality(levels) >= 2 THEN 5 ELSE 0)
    IN  IF rows = {} THEN 0
        ELSE IF score < 20 THEN score ELSE 20

calculate_seniority_score_uncapped(postings, nw, company_id) ==
    LET rows == { i \in RelevantRows(postings, company_id) :
                    /\ InWindow(postings[i], nw, 30)
                    /\ postings[i].seniority_level # NULL }
        levels == { Val(postings[i].seniority_level) : i \in rows }
    IN  IF rows = {} THEN 0
        ELSE (IF levels \cap {"director", "c-level"} # {} THEN 15 ELSE 0)
             + (IF "senior" \in levels THEN 5 ELSE 0)
             + (IF Cardinality(levels) >= 2 THEN 5 ELSE 0)

calculate_seniority_score(postings, nw, company_id) ==
    LET rows == { i \in RelevantRows(postings, company_id) :
                    /\ InWindow(postings[i], nw, 30)
                    /\ postings[i].seniority_level # NULL }
        levels == { Val(postings[i].seniority_level) : i \in rows }
        has_director == levels \cap {"director", "c-level"} # {}
        has_senior == "senior" \in levels
        multiple_levels == Cardinality(levels) >= 2
        score == (IF has_director THEN 15 ELSE 0)
                 + (IF has_senior THEN 5 ELSE 0)
                 + (IF multiple_levels THEN 5 ELSE 0)
    IN  IF rows = {} THEN 0
        ELSE IF score < 20 THEN score ELSE 20

----------------------------------------------------------------------------
(* ICP fit *)

HeadcountPoints(comps, company_id) ==
    IF company_id \in DOMAIN comps
       /\ comps[company_id].headcount_poland # NULL
    THEN LET headcount == Val(comps[company_id].headcount_poland)
         IN  IF 200 <= headcount /\ headcount <= 5000 THEN 15
             ELSE IF 5001 <= headcount /\ headcount <= 10000 THEN 10
             ELSE 0
    ELSE 0

TitleMatches_case_sensitive(job_title) ==
    LET title == IF job_title = NULL THEN <<>> ELSE Val(job_title)
    IN  \E target \in TARGET_TITLES : contains(target, title)

TitleMatches(job_title) ==
    LET title == IF job_title = NULL THEN <<>> ELSE Val(job_title)
        title_lower == lower(title)
    IN  \E target \in TARGET_TITLES : contains(lower(target), title_lower)

calculate_icp_score(postings, comps, nw, company_id) ==
    LET rows == { i \in RelevantRows(postings, company_id) :
                    InWindow(postings[i], nw, 30) }
        matching_count ==
            Cardinality({ i \in rows : TitleMatches(postings[i].job_title) })
        score == HeadcountPoints(comps, company_id)
                 + (IF matching_count >= 2 THEN 5 ELSE 0)
    IN  IF score < 20 THEN score ELSE 20

----------------------------------------------------------------------------
(* Content signals *)

PostingContentPoints(job_description) ==
    LET jd == lower(IF job_description = NULL THEN <<>>
                    ELSE Val(job_description))
    IN  IF jd = <<>> THEN 0
        ELSE (IF \E kw \in WELLBEING_KEYWORDS : contains(lower(kw), jd)
              THEN 5 ELSE 0)
           + (IF \E kw \in EAP_KEYWORDS : contains(lower(kw), jd)
              THEN 3 ELSE 0)
           + (IF \E kw \in CULTURE_KEYWORDS : contains(lower(kw), jd)
              THEN 2 ELSE 0)

RECURSIVE ContentLoop(_, _)
ContentLoop(postings, rows) ==
    IF rows = {} THEN 0
    ELSE LET i == CHOOSE i \in rows : TRUE
         IN  PostingContentPoints(postings[i].job_description)
             + ContentLoop(postings, rows \ {i})

calculate_content_score_per_category(postings, nw, company_id) ==
    LET rows == { i \in RelevantRows(postings, company_id) :
                    /\ InWindow(postings[i], nw, 30)
                    /\ postings[i].job_description # NULL }
        any(kws) ==
            \E i \in rows : \E kw \in kws :
                contains(lower(kw), lower(Val(postings[i].job_description)))
        score == (IF any(WELLBEING_KEYWORDS) THEN 5 ELSE 0)
                 + (IF any(EAP_KEYWORDS) THEN 3 ELSE 0)
                 + (IF any(CULTURE_KEYWORDS) THEN 2 ELSE 0)
    IN  IF score < 10 THEN score ELSE 10

calculate_content_score_uncapped(postings, nw, company_id) ==
    ContentLoop(postings,
                { i \in RelevantRows(postings, company_id) :
                    InWindow(postings[i], nw, 30) })

calculate_content_score(postings, nw, company_id) ==
    LET rows == { i \in RelevantRows(postings, company_id) :
                    InWindow(postings[i], nw, 30) }
        score == ContentLoop(postings, rows)
    IN  IF score < 10 THEN score ELSE 10

----------------------------------------------------------------------------
(* Recency *)

calculate_recency_score_no_guard(postings, nw, company_id) ==
    LET rows == RelevantRows(postings, company_id)
        latest_post_date ==
            MaxOf({ postings[i].post_date : i \in rows } \cup {Today(nw)})
        days_ago == CastInteger(nw - 2 * latest_post_date)
    IN  IF days_ago <= 3 THEN 10
        ELSE IF days_ago <= 7 THEN 8
        ELSE IF days_ago <= 14 THEN 5
        ELSE IF days_ago <= 30 THEN 3
        ELSE 0

calculate_recency_score(postings, nw, company_id) ==
    LET rows == RelevantRows(postings, company_id)
    IN  IF rows = {} THEN 0
        ELSE LET latest_post_date == MaxOf({ postings[i].post_date : i \in rows })
                 days_ago == CastInteger(nw - 2 * latest_post_date)
             IN  IF days_ago <= 3 THEN 10
                 ELSE IF days_ago <= 7 THEN 8
                 ELSE IF days_ago <= 14 THEN 5
                 ELSE IF days_ago <= 30 THEN 3
                 ELSE 0

----------------------------------------------------------------------------
(* Composite scorer and its metadata helpers *)

count_postings_any_relevance(postings, nw, company_id, days) ==
    Cardinality({ i \in DOMAIN postings :
                    /\ postings[i].company_id = Some(company_id)
                    /\ InWindow(postings[i], nw, days) })

count_postings(postings, nw, company_id, days) ==
    Cardinality({ i \in RelevantRows(postings, company_id) :
                    InWindow(postings[i], nw, days) })

has_director_role_any_date(postings, nw, company_id) ==
    Cardinality({ i \in RelevantRows(postings, company_id) :
                    postings[i].seniority_level
                        \in {Some("director"), Some("c-level")} }) > 0

has_director_role(postings, nw, company_id) ==
    Cardinality({ i \in RelevantRows(postings, company_id) :
                    /\ InWindow(postings[i], nw, 30)
                    /\ postings[i].seniority_level
                         \in {Some("director"), Some("c-level")} }) > 0

keywords == WELLBEING_KEYWORDS

has_wellbeing_keywords(postings, nw, company_id) ==
    \E i \in RelevantRows(postings, company_id) :
        /\ InWindow(postings[i], nw, 30)
        /\ postings[i].job_description # NULL
        /\ \E kw \in keywords :
              contains(kw, lower(Val(postings[i].job_description)))

multi_city_expansion(postings, nw, company_id) ==
    Cardinality({ postings[i].location :
                    i \in { j \in RelevantRows(postings, company_id) :
                              /\ InWindow(postings[j], nw, 30)
                              /\ postings[j].location # NULL
                              /\ postings[j].location # Some(<<>>) } }) >= 2

LeadTemperature_strict(final_score) ==
    IF final_score > 75 THEN "hot"
    ELSE IF final_score > 50 THEN "warm"
    ELSE "cold"

LeadTemperature(final_score) ==
    IF final_score >= 75 THEN "hot"
    ELSE IF final_score >= 50 THEN "warm"
    ELSE "cold"

calculate_final_score(postings, comps, nw, company_id) ==
    LET velocity == calculate_velocity_score(postings, nw, company_id)
        seniority == calculate_seniority_score(postings, nw, company_id)
        icp == calculate_icp_score(postings, comps, nw, company_id)
        content == calculate_content_score(postings, nw, company_id)
        recency == calculate_recency_score(postings, nw, company_id)
        final_score == velocity + seniority + icp + content + recency
    IN  [ company_id |-> company_id,
          final_score |-> final_score,
          lead_temperature |-> LeadTemperature(final_score),
          velocity |-> velocity,
          seniority |-> seniority,
          icp |-> icp,
          content |-> content,
          recency |-> recency,
          posting_count_7d |-> count_postings(postings, nw, company_id, 7),
          posting_count_30d |-> count_postings(postings, nw, company_id, 30),
          has_director_role |-> has_director_role(postings, nw, company_id),
          has_wellbeing_keywords |->
              has_wellbeing_keywords(postings, nw, company_id),
          multi_city_expansion |->
              multi_city_expansion(postings, nw, company_id) ]

----------------------------------------------------------------------------
(* Company-name normalisation (scrapers/utils.py) *)

Whitespace == {" ", "\t"}

LEGAL_SUFFIXES == <<
    <<"S", "p", "o_acute", "l_stroke", "k", "a", " ", "z", " ", "o", "g",
      "r", "a", "n", "i", "c", "z", "o", "n", "a_ogonek", " ", "o", "d", "p",
      "o", "w", "i", "e", "d", "z", "i", "a", "l", "n", "o", "s_acute", "c",
      "i", "a_ogonek">>,
    <<"s", "p", "o_acute", "l_stroke", "k", "a", " ", "z", " ", "o", "g",
      "r", "a", "n", "i", "c", "z", "o", "n", "a_ogonek", " ", "o", "d", "p",
      "o", "w", "i", "e", "d", "z", "i", "a", "l", "n", "o", "s_acute", "c",
      "i", "a_ogonek">>,
    <<"S", "p", "o_acute", "l_stroke", "k", "a", " ", "A", "k", "c", "y",
      "j", "n", "a">>,
    <<"s", "p", "o_acute", "l_stroke", "k", "a", " ", "a", "k", "c", "y",
      "j", "n", "a">>,
    <<"S", "p", ".", " ", "z", " ", "o", ".", " ", "o", ".">>,
    <<"s", "p", ".", " ", "z", " ", "o", ".", " ", "o", ".">>,
    <<"S", "p", ".", " ", "z", " ", "o", ".", "o", ".">>,
    <<"s", "p", ".", " ", "z", " ", "o", ".", "o", ".">>,
    <<"S", ".", "A", ".">>,
    <<"s", ".", "a", ".">> >>

(* str.strip(): drop leading and trailing whitespace *)
strip(s) ==
    LET keep == { i \in 1..Len(s) : s[i] \notin Whitespace }
    IN  IF keep = {} THEN <<>>
        ELSE SubSeq(s, CHOOSE i \in keep : \A j \in keep : i <= j,
                       CHOOSE i \in keep : \A j \in keep : j <= i)

(* str.rstrip(chars): drop the trailing characters that are in chars *)
rstrip(s, chars) ==
    LET keep == { i \in 1..Len(s) : s[i] \notin chars }
    IN  IF keep = {} THEN <<>>
        ELSE SubSeq(s, 1, CHOOSE i \in keep : \A j \in keep : j <= i)

(* str.rfind(needle): 0-based index of the last occurrence, -1 if none *)
rfind(hay, needle) ==
    LET hits == { i \in 0..(Len(hay) - Len(needle)) :
                    \A j \in 1..Len(needle) : hay[i + j] = needle[j] }
    IN  IF hits = {} THEN -1
        ELSE CHOOSE i \in hits : \A j \in hits : j <= i

(* s[:k] and s[k:] for k >= 0; a slice past the end is empty *)
SliceTo(s, k) == IF k >= Len(s) THEN s ELSE SubSeq(s, 1, k)

SliceFrom(s, k) == IF k >= Len(s) THEN <<>> ELSE SubSeq(s, k + 1, Len(s))

(* One pass of the loop body: the index is found in name.lower() and is    *)
(* applied to name itself                                                  *)
RemoveSuffix(name, suffix) ==
    LET idx == rfind(lower(name), lower(suffix))
    IN  IF idx # -1
        THEN SliceTo(name, idx) \o SliceFrom(name, idx + Len(suffix))
        ELSE name

RECURSIVE SuffixLoop(_, _)
SuffixLoop(name, k) ==
    IF k > Len(LEGAL_SUFFIXES) THEN name
    ELSE SuffixLoop(RemoveSuffix(name, LEGAL_SUFFIXES[k]), k + 1)

normalize_company_name_blank_unchanged(raw) ==
    IF strip(raw) = <<>> THEN raw
    ELSE strip(rstrip(strip(SuffixLoop(strip(raw), 1)), {","}))

normalize_company_name(raw) ==
    IF raw = <<>> THEN raw
    ELSE strip(rstrip(strip(SuffixLoop(strip(raw), 1)), {","}))

----------------------------------------------------------------------------
(* Signal persistence (db/manager.py save_signal) *)

MaxSignals == 2

(* dict.get(key) and dict.get(key, default) on a dict with the given keys *)
Get(d, key) == IF key \in DOMAIN d THEN Some(d[key]) ELSE NULL

GetOr(d, key, default) ==
    IF key \in DOMAIN d THEN Some(d[key]) ELSE Some(default)

(* The row the INSERT of save_signal stores for signal_dict *)
SignalRow(signal_dict, today) ==
    [ company_id |-> Get(signal_dict, "company_id"),
      signal_date |-> GetOr(signal_dict, "signal_date", today),
      signal_type |-> GetOr(signal_dict, "signal_type", "hiring_velocity"),
      signal_strength |-> Get(signal_dict, "signal_strength"),
      velocity_score |-> Get(signal_dict, "velocity_score"),
      posting_count_7d |-> Get(signal_dict, "posting_count_7d"),
      posting_count_30d |-> Get(signal_dict, "posting_count_30d"),
      posting_count_90d |-> Get(signal_dict, "posting_count_90d"),
      has_director_role |-> Get(signal_dict, "has_director_role"),
      has_wellbeing_keywords |-> Get(signal_dict, "has_wellbeing_keywords"),
      multi_city_expansion |-> Get(signal_dict, "multi_city_expansion"),
      final_score |-> Get(signal_dict, "final_score"),
      lead_temperature |-> Get(signal_dict, "lead_temperature") ]

save_signal_upsert(sigs, signal_dict, today) ==
    LET row == SignalRow(signal_dict, today)
        same == { i \in 1..Len(sigs) :
                    /\ sigs[i].company_id = row.company_id
                    /\ sigs[i].signal_date = row.signal_date }
    IN  IF same = {} THEN Append(sigs, row)
        ELSE [ i \in 1..Len(sigs) |-> IF i \in same THEN row ELSE sigs[i] ]

save_signal(sigs, signal_dict, today) ==
    Append(sigs, SignalRow(signal_dict, today))

----------------------------------------------------------------------------
(* Operations *)

CalculateFinalScore_saving(company_id) ==
    /\ Len(signals) < MaxSignals
    /\ result' = Some(calculate_final_score(job_postings, companies, now,
                                            company_id))
    /\ signals' = save_signal(signals, Val(result'), Today(now))
    /\ UNCHANGED <<job_postings, companies, now, inserted, link_runs,
                   raw_name, normalized,
                   scored, run_log, report, hot_companies>>

CalculateFinalScore(company_id) ==
    /\ UNCHANGED <<job_postings, companies, now,
                   signals, inserted, link_runs,
                   raw_name, normalized,
                   scored, run_log, report, hot_companies>>
    /\ result' = Some(calculate_final_score(job_postings, companies, now,
                                            company_id))

Tick ==
    /\ now < 2 * Today0 + MaxTicks
    /\ now' = now + 1
    /\ result' = NULL
    /\ UNCHANGED <<job_postings, companies,
                   signals, inserted, link_runs,
                   raw_name, normalized,
                   scored, run_log, report, hot_companies>>

Next ==
    \/ \E company_id \in CompanyIds : CalculateFinalScore(company_id)
    \/ Tick

----------------------------------------------------------------------------
(* Bounded stores: a store is a table of at most max rows drawn from a     *)
(* universe of rows, job_url being the row's position                      *)

Row(company_id, title, location, post_date, jd, seniority, relevant) ==
    [ job_url |-> 0,
      job_title |-> title,
      company_id |-> company_id,
      location |-> location,
      post_date |-> post_date,
      job_description |-> jd,
      seniority_level |-> seniority,
      is_relevant |-> relevant ]

RECURSIVE SetToSeq(_)
SetToSeq(S) ==
    IF S = {} THEN <<>>
    ELSE LET x == CHOOSE x \in S : TRUE
         IN  <<x>> \o SetToSeq(S \ {x})

RECURSIVE SortedIdx(_, _, _)
SortedIdx(k, lo, n) ==
    IF k = 0 THEN { <<>> }
    ELSE UNION { { <<i>> \o s : s \in SortedIdx(k - 1, i, n) } : i \in lo..n }

StoresOver(universe, max) ==
    LET U == SetToSeq(universe)
    IN  UNION { { [i \in 1..k |-> [U[s[i]] EXCEPT !.job_url = i]] :
                    s \in SortedIdx(k, 1, Len(U)) } : k \in 0..max }

Company(headcount_poland) == [ headcount_poland |-> headcount_poland ]

CompositeRows ==
    { Row(Some(1), p[1], p[2], d, p[3], p[4], r) :
        p \in { <<Some(Title_HR_DIRECTOR), Some(Loc_Warszawa),
                  Some(Desc_Wellbeing_EAP), Some("director")>>,
                <<Some(Title_Head_of_wellbeing), Some(Loc_Krakow),
                  Some(Desc_All_Three), Some("senior")>>,
                <<Some(Title_HR_Manager), NULL, NULL, NULL>>,
                <<Some(Title_HR_Manager), Some(Loc_Warszawa),
                  Some(Desc_HR_ops), Some("mid")>> },
        d \in {Today0 - 3, Today0 - 30},
        r \in {0, 1} }
    \cup { Row(Some(2), Some(Title_HR_DIRECTOR), Some(Loc_Krakow), Today0 - 3,
               Some(Desc_Wellbeing_EAP), Some("director"), r) : r \in {0, 1} }

VelocityRows ==
    { Row(Some(c), Some(Title_HR_Manager), NULL, d, NULL, NULL, r) :
        c \in {1, 2},
        d \in {Today0 - 7, Today0 - 30, Today0 - 90},
        r \in {0, 1} }

SeniorityRows ==
    { Row(Some(1), Some(Title_HR_Manager), NULL, d, NULL, s, r) :
        s \in {NULL, Some("director"), Some("c-level"), Some("senior"),
               Some("mid"), Some("junior")},
        d \in {Today0 - 1, Today0 - 30},
        r \in {0, 1} }
    \cup { Row(Some(2), Some(Title_HR_Manager), NULL, Today0 - 1, NULL,
               Some("director"), 1) }

IcpRows ==
    { Row(Some(1), t, NULL, d, NULL, NULL, r) :
        t \in {NULL, Some(Title_HR_DIRECTOR), Some(Title_Head_of_wellbeing),
               Some(Title_HR_Manager)},
        d \in {Today0 - 1, Today0 - 30},
        r \in {0, 1} }
    \cup { Row(Some(2), Some(Title_HR_DIRECTOR), NULL, Today0 - 1, NULL,
               NULL, 1) }

IcpHeadcounts ==
    {NULL, Some(199), Some(200), Some(450), Some(5000), Some(5001),
     Some(10000), Some(10001)}

ContentRows ==
    { Row(Some(1), Some(Title_HR_Manager), NULL, d, jd, NULL, r) :
        jd \in {NULL, Some(<<>>), Some(Desc_Wellbeing_EAP),
                Some(Desc_Employer_Branding), Some(Desc_All_Three),
                Some(Desc_HR_ops)},
        d \in {Today0 - 1, Today0 - 30},
        r \in {0, 1} }
    \cup { Row(Some(2), Some(Title_HR_Manager), NULL, Today0 - 1,
               Some(Desc_All_Three), NULL, 1) }

RecencyRows ==
    { Row(Some(1), Some(Title_HR_Manager), NULL, d, NULL, NULL, r) :
        d \in {Today0 + 1, Today0 - 2, Today0 - 3, Today0 - 7, Today0 - 10,
               Today0 - 14, Today0 - 30, Today0 - 40},
        r \in {0, 1} }
    \cup { Row(Some(2), Some(Title_HR_Manager), NULL, Today0, NULL, NULL, 1) }

ScenarioRows ==
    { Row(Some(1), Some(Title_HR_Director), Some(Loc_Warszawa), Today0 - 2,
          Some(Desc_Wellbeing_EAP), Some("director"), 1),
      Row(Some(1), Some(Title_HR_Manager), Some(Loc_Warszawa), Today0 - 5,
          Some(Desc_HR_ops), Some("mid"), 1),
      Row(Some(1), Some(Title_HR_Manager), Some(Loc_Krakow), Today0 - 12,
          Some(Desc_HR_ops), Some("mid"), 1),
      Row(Some(1), Some(Title_Koordynator), Some(Loc_Warszawa), Today0 - 8,
          Some(Desc_Dobrostan), Some("mid"), 1),
      Row(Some(1), Some(Title_HR_Director), Some(Loc_Warszawa), Today0 - 1,
          Some(Desc_Wellbeing_EAP), Some("director"), 0),
      Row(Some(2), Some(Title_HR_Manager), Some(Loc_Warszawa), Today0 - 10,
          Some(Desc_HR_ops), NULL, 1) }

----------------------------------------------------------------------------
(* Specifications *)

InitOver(universe, max, headcounts1, headcounts2) ==
    /\ job_postings \in StoresOver(universe, max)
    /\ companies \in { <<Company(h1), Company(h2)>> :
                         h1 \in headcounts1, h2 \in headcounts2 }
    /\ now = 2 * Today0
    /\ result = NULL
    /\ signals = <<>>
    /\ inserted = NULL
    /\ link_runs = 0
    /\ scored = NULL
    /\ run_log = <<>>
    /\ report = NULL
    /\ hot_companies = NULL
    /\ raw_name = <<>>
    /\ normalized = NULL

Init ==
    InitOver(CompositeRows, MaxPostings,
             {NULL, Some(450), Some(6000)}, {Some(450)})

Spec == Init /\ [][Next]_vars

InitScenario ==
    InitOver(ScenarioRows, MaxScenarioPostings, {Some(450), Some(50)},
             {Some(50)})

SpecScenario == InitScenario /\ [][Next]_vars

InitVelocity == InitOver(VelocityRows, MaxVelPostings, {Some(450)}, {NULL})

SpecVelocity == InitVelocity /\ [][Next]_vars

InitSeniority == InitOver(SeniorityRows, MaxSenPostings, {Some(450)}, {NULL})

SpecSeniority == InitSeniority /\ [][Next]_vars

InitIcp == InitOver(IcpRows, MaxIcpPostings, IcpHeadcounts, {NULL})

SpecIcp == InitIcp /\ [][Next]_vars

InitContent == InitOver(ContentRows, MaxConPostings, {Some(450)}, {NULL})

SpecContent == InitContent /\ [][Next]_vars

InitRecency == InitOver(RecencyRows, MaxRecPostings, {Some(450)}, {NULL})

SpecRecency == InitRecency /\ [][Next]_vars

----------------------------------------------------------------------------
(* Properties of the composite scorer *)

\* C1: every result of calculate_final_score has final_score equal to the sum
\* of its five dimension scores, and final_score lies between 0 and 100.
C1_FinalScoreIsSumInRange ==
    result # NULL =>
        LET r == Val(result)
        IN  /\ r.final_score
                 = r.velocity + r.seniority + r.icp + r.content + r.recency
            /\ 0 <= r.final_score
            /\ r.final_score <= 100

C1_Witness ==
    /\ result # NULL
    /\ Val(result).final_score = 100
    /\ Val(result).velocity = 40
    /\ Val(result).content = 10

\* C2: lead_temperature is "hot" exactly when final_score >= 75, "warm" exactly
\* when 50 <= final_score < 75, "cold" exactly when final_score < 50, and no
\* other temperature is produced.
C2_TemperatureThresholds ==
    result # NULL =>
        LET r == Val(result)
        IN  /\ r.lead_temperature \in {"hot", "warm", "cold"}
            /\ (r.lead_temperature = "hot") <=> (r.final_score >= 75)
            /\ (r.lead_temperature = "warm")
                 <=> (50 <= r.final_score /\ r.final_score < 75)
            /\ (r.lead_temperature = "cold") <=> (r.final_score < 50)

C2_Witness ==
    /\ result # NULL
    /\ Val(result).final_score = 75
    /\ Val(result).lead_temperature = "hot"

----------------------------------------------------------------------------
(* Properties of the dimension scorers, stated over the stored rows *)

Scored(company_id) ==
    { i \in 1..Len(job_postings) :
        /\ job_postings[i].company_id = <<company_id>>
        /\ job_postings[i].is_relevant = 1 }

Age(i) == (now \div 2) - job_postings[i].post_date

Recent(company_id, days) == { i \in Scored(company_id) : Age(i) <= days }

Least(a, b) == IF a <= b THEN a ELSE b

\* C3: velocity is the value of the first satisfied rung: 40 if the 7-day
\* count >= 3, else 35 if the 30-day count >= 5, else 30 if it is >= 3, else
\* 20 if it is >= 2, else 10 if the 90-day count >= 2, else 0; the result is
\* always one of 0, 10, 20, 30, 35, 40.
C3_VelocityLadder ==
    result # NULL =>
        LET r == Val(result)
            c7 == Cardinality(Recent(r.company_id, 7))
            c30 == Cardinality(Recent(r.company_id, 30))
            c90 == Cardinality(Recent(r.company_id, 90))
        IN  /\ r.velocity \in {0, 10, 20, 30, 35, 40}
            /\ c7 >= 3 => r.velocity = 40
            /\ c7 < 3 /\ c30 >= 5 => r.velocity = 35
            /\ c7 < 3 /\ c30 \in {3, 4} => r.velocity = 30
            /\ c7 < 3 /\ c30 = 2 => r.velocity = 20
            /\ c7 < 3 /\ c30 < 2 /\ c90 >= 2 => r.velocity = 10
            /\ c7 < 3 /\ c30 < 2 /\ c90 < 2 => r.velocity = 0

C3_Witness ==
    /\ result # NULL
    /\ Val(result).velocity = 35
    /\ Cardinality(Recent(Val(result).company_id, 7)) = 2
    /\ Cardinality(Recent(Val(result).company_id, 30)) = 5

\* C4: seniority is min(20, 15*[director or c-level present] + 5*[senior
\* present] + 5*[at least 2 distinct levels]) over the relevant 30-day postings
\* with non-null seniority; one director plus one mid posting scores 20.
C4_SeniorityMix ==
    result # NULL =>
        LET r == Val(result)
            L == { job_postings[i].seniority_level[1] :
                     i \in { j \in Recent(r.company_id, 30) :
                               Len(job_postings[j].seniority_level) = 1 } }
            sum == (IF "director" \in L \/ "c-level" \in L THEN 15 ELSE 0)
                   + (IF "senior" \in L THEN 5 ELSE 0)
                   + (IF Cardinality(L) >= 2 THEN 5 ELSE 0)
        IN  /\ r.seniority = Least(20, sum)
            /\ L = {"director", "mid"} => r.seniority = 20

C4_Witness ==
    /\ result # NULL
    /\ Val(result).seniority = 20
    /\ Cardinality(Recent(Val(result).company_id, 30)) = 2
    /\ { job_postings[i].seniority_level :
           i \in Recent(Val(result).company_id, 30) }
         = { <<"director">>, <<"mid">> }

\* The titles of the bounded stores that contain a target title
C5_MatchingTitles == { <<Title_HR_DIRECTOR>>, <<Title_Head_of_wellbeing>> }

\* C5: icp is min(20, H + T): H is 15 for a headcount in 200..5000, 10 for
\* 5001..10000 and 0 otherwise (also for a null headcount); T is 5 when at
\* least 2 relevant 30-day postings have a title containing a target title,
\* case-insensitively, and 0 otherwise; one match gives no title bonus.
C5_IcpFit ==
    result # NULL =>
        LET r == Val(result)
            hc == IF r.company_id \in 1..Len(companies)
                  THEN companies[r.company_id].headcount_poland ELSE <<>>
            H == IF hc = <<>> THEN 0
                 ELSE IF hc[1] >= 200 /\ hc[1] <= 5000 THEN 15
                 ELSE IF hc[1] >= 5001 /\ hc[1] <= 10000 THEN 10
                 ELSE 0
            matches == { i \in Recent(r.company_id, 30) :
                           job_postings[i].job_title \in C5_MatchingTitles }
            T == IF Cardinality(matches) >= 2 THEN 5 ELSE 0
        IN  r.icp = Least(20, H + T)

C5_Witness ==
    /\ result # NULL
    /\ Val(result).company_id = 1
    /\ companies[1].headcount_poland = <<450>>
    /\ Cardinality({ i \in Recent(1, 30) :
                       job_postings[i].job_title \in C5_MatchingTitles }) = 1
    /\ Val(result).icp = 15

\* Points of one posting, by the description texts of the bounded stores
C6_PostingPoints(job_description) ==
    IF job_description = <<Desc_Wellbeing_EAP>> THEN 5 + 3
    ELSE IF job_description = <<Desc_All_Three>> THEN 5 + 3 + 2
    ELSE IF job_description = <<Desc_Employer_Branding>> THEN 2
    ELSE IF job_description = <<Desc_Dobrostan>> THEN 5
    ELSE 0

RECURSIVE C6_Sum(_)
C6_Sum(rows) ==
    IF rows = {} THEN 0
    ELSE LET i == CHOOSE i \in rows : TRUE
         IN  C6_PostingPoints(job_postings[i].job_description)
             + C6_Sum(rows \ {i})

\* C6: content adds, for each relevant 30-day posting, 5 for a wellbeing
\* keyword, 3 for an EAP keyword and 2 for a culture keyword in its description,
\* sums these over all postings (a category counts once per posting) and caps
\* only the grand total at 10.
C6_ContentPerPosting ==
    result # NULL =>
        LET r == Val(result)
        IN  /\ r.content = Least(10, C6_Sum(Recent(r.company_id, 30)))
            /\ r.content <= 10

C6_Witness ==
    /\ result # NULL
    /\ Val(result).content = 4
    /\ Cardinality(Recent(Val(result).company_id, 30)) = 2
    /\ \A i \in Recent(Val(result).company_id, 30) :
           job_postings[i].job_description = <<Desc_Employer_Branding>>

\* C7: recency depends only on the age d in whole days of the most recent
\* relevant posting, whatever its window: d <= 3 gives 10, else d <= 7 gives 8,
\* else d <= 14 gives 5, else d <= 30 gives 3, else 0; no relevant posting
\* gives 0.
C7_RecencyLadder ==
    result # NULL =>
        LET r == Val(result)
            rows == Scored(r.company_id)
            d == CHOOSE a \in { Age(i) : i \in rows } :
                     \A i \in rows : a <= Age(i)
        IN  IF rows = {} THEN r.recency = 0
            ELSE /\ d <= 3 => r.recency = 10
                 /\ d > 3 /\ d <= 7 => r.recency = 8
                 /\ d > 7 /\ d <= 14 => r.recency = 5
                 /\ d > 14 /\ d <= 30 => r.recency = 3
                 /\ d > 30 => r.recency = 0

C7_Witness ==
    /\ result # NULL
    /\ Val(result).recency = 5
    /\ Cardinality(Scored(Val(result).company_id)) = 2
    /\ \E i \in Scored(Val(result).company_id) : Age(i) = 10
    /\ \A i \in Scored(Val(result).company_id) : Age(i) >= 10

----------------------------------------------------------------------------
(* End-to-end scenario A, the seeded Samsung store of the scoring tests *)

ScenarioA(company_id) ==
    /\ company_id \in 1..Len(companies)
    /\ companies[company_id].headcount_poland = <<450>>
    /\ Cardinality(Scored(company_id)) = 4
    /\ \E a, b, c, d \in Scored(company_id) :
          /\ Cardinality({a, b, c, d}) = 4
          /\ Age(a) = 2
          /\ job_postings[a].seniority_level = <<"director">>
          /\ job_postings[a].job_description = <<Desc_Wellbeing_EAP>>
          /\ job_postings[a].job_title = <<Title_HR_Director>>
          /\ Age(b) = 5
          /\ Age(c) = 12
          /\ \A m \in {b, c} :
                /\ job_postings[m].seniority_level = <<"mid">>
                /\ job_postings[m].job_description = <<Desc_HR_ops>>
                /\ job_postings[m].job_title = <<Title_HR_Manager>>
          /\ Age(d) = 8
          /\ job_postings[d].seniority_level = <<"mid">>
          /\ job_postings[d].job_description = <<Desc_Dobrostan>>
          /\ job_postings[d].job_title = <<Title_Koordynator>>

----------------------------------------------------------------------------
(* Lookup miss and relevance *)

\* C9: scoring a company id without postings (or without a company row)
\* returns a result with velocity = seniority = content = recency = 0 and icp
\* equal to the headcount band alone, so final_score <= 15 and "cold".
C9_NoPostings ==
    result # NULL
    /\ (\A i \in 1..Len(job_postings) :
           job_postings[i].company_id # <<Val(result).company_id>>) =>
        LET r == Val(result)
            hc == IF r.company_id \in 1..Len(companies)
                  THEN companies[r.company_id].headcount_poland ELSE <<>>
            band == IF hc = <<>> THEN 0
                    ELSE IF hc[1] >= 200 /\ hc[1] <= 5000 THEN 15
                    ELSE IF hc[1] >= 5001 /\ hc[1] <= 10000 THEN 10
                    ELSE 0
        IN  /\ r.velocity = 0
            /\ r.seniority = 0
            /\ r.content = 0
            /\ r.recency = 0
            /\ r.icp = band
            /\ r.final_score = band
            /\ r.final_score <= 15
            /\ r.lead_temperature = "cold"

C9_Witness ==
    /\ result # NULL
    /\ Val(result).company_id = 1
    /\ Len(job_postings) > 0
    /\ \A i \in 1..Len(job_postings) : job_postings[i].company_id # <<1>>
    /\ Val(result).icp = 15
    /\ Val(result).final_score = 15

\* C10: every field of the composite result equals the one computed on the
\* same store with all postings having is_relevant = 0 removed.
C10_OnlyRelevantPostings ==
    result # NULL =>
        Val(result)
          = calculate_final_score(
                SelectSeq(job_postings, LAMBDA p : p.is_relevant # 0),
                companies, now, Val(result).company_id)

C10_Witness ==
    /\ result # NULL
    /\ Val(result).final_score > 0
    /\ \E i, j \in 1..Len(job_postings) :
          /\ job_postings[i].company_id = <<Val(result).company_id>>
          /\ job_postings[i].is_relevant = 0
          /\ Age(i) <= 7
          /\ job_postings[j].company_id = <<Val(result).company_id>>
          /\ job_postings[j].is_relevant = 1

----------------------------------------------------------------------------
(* Normaliser: inputs, operations and specification *)

MaxPieces == 3

(* Raw names are concatenations of at most MaxPieces short pieces, and     *)
(* every suffix of the list appended to a short base after one space      *)
ShortPieces ==
    { <<"A">>, <<" ">>, <<",">>, <<"I_dot">>,
      <<"S", ".", "A", ".">>, <<"s", ".", "a", ".">>,
      <<"S", "p", ".", " ", "z", " ", "o", ".", "o", ".">> }

BasePieces == { <<"A">>, <<" ">>, <<",">>, <<"I_dot">> }

RECURSIVE Joined(_, _)
Joined(pieces, k) ==
    IF k = 0 THEN { <<>> }
    ELSE { p \o t : p \in pieces, t \in Joined(pieces, k - 1) }

SuffixedNames ==
    { b \o <<" ">> \o LEGAL_SUFFIXES[k] :
        b \in UNION { Joined(BasePieces, n) : n \in 0..(MaxPieces - 1) },
        k \in 1..Len(LEGAL_SUFFIXES) }

RawNames == UNION { Joined(ShortPieces, n) : n \in 0..MaxPieces }

NormalizeCompanyName ==
    /\ normalized = NULL
    /\ normalized' = Some(normalize_company_name(raw_name))
    /\ UNCHANGED <<job_postings, companies, now, result, signals, inserted,
                   link_runs, raw_name,
                   scored, run_log, report, hot_companies>>

(* The result of one call is passed to the normaliser again *)
NormalizeAgain ==
    /\ normalized # NULL
    /\ raw_name' = Val(normalized)
    /\ normalized' = Some(normalize_company_name(Val(normalized)))
    /\ UNCHANGED <<job_postings, companies, now, result, signals, inserted,
                   link_runs,
                   scored, run_log, report, hot_companies>>

NextNormalize ==
    \/ NormalizeCompanyName
    \/ NormalizeAgain

InitNormalize ==
    /\ raw_name \in RawNames \cup SuffixedNames
    /\ normalized = NULL
    /\ job_postings = <<>>
    /\ companies = <<>>
    /\ now = 2 * Today0
    /\ result = NULL
    /\ signals = <<>>
    /\ inserted = NULL
    /\ link_runs = 0
    /\ scored = NULL
    /\ run_log = <<>>
    /\ report = NULL
    /\ hot_companies = NULL

SpecNormalize == InitNormalize /\ [][NextNormalize]_vars

----------------------------------------------------------------------------
(* Claims about the normaliser *)

(* C17: normalize_company_name is idempotent: normalising the result of a  *)
(* call again gives that result, for every input string                    *)
C17_Idempotent ==
    [][NormalizeAgain => normalized' = normalized]_vars

IsBlank(s) == \A i \in 1..Len(s) : s[i] \in Whitespace

(* C18: for every input string the result has no leading and no trailing   *)
(* whitespace and does not end with a comma                                *)
C18_TrimmedNoComma ==
    normalized # NULL =>
        LET r == Val(normalized)
        IN  r # <<>> =>
              /\ r[1] \notin Whitespace
              /\ r[Len(r)] \notin Whitespace
              /\ r[Len(r)] # ","

ContainsSuffix(name) ==
    \E k \in 1..Len(LEGAL_SUFFIXES) :
        contains(lower(LEGAL_SUFFIXES[k]), lower(name))

EndsWith(s, t) ==
    /\ Len(t) <= Len(s)
    /\ \A j \in 1..Len(t) : s[Len(s) - Len(t) + j] = t[j]

(* C19: for a base name holding no legal suffix (case-insensitively) and a *)
(* suffix S of the list, base + " " + S normalises to the trimmed base,    *)
(* and a name holding no suffix is returned unchanged apart from trimming  *)
C19_SuffixRemoved ==
    normalized # NULL =>
        /\ \A k \in 1..Len(LEGAL_SUFFIXES) :
              LET tail == <<" ">> \o LEGAL_SUFFIXES[k]
                  base == SliceTo(raw_name, Len(raw_name) - Len(tail))
              IN  (EndsWith(raw_name, tail) /\ ~ContainsSuffix(base))
                      => Val(normalized) = strip(base)
        /\ ~ContainsSuffix(raw_name) => Val(normalized) = strip(raw_name)

C20_BlankUnchanged_AsStated ==
    (normalized # NULL /\ IsBlank(raw_name)) => Val(normalized) = raw_name

(* C20: normalize_company_name returns a text for every input string (it   *)
(* never raises); the empty string is returned unchanged and a blank       *)
(* (whitespace-only) string gives the empty string                         *)
C20_EmptyOrBlank ==
    normalized # NULL =>
        LET r == Val(normalized)
        IN  /\ Len(r) <= Len(raw_name)
            /\ \A i \in 1..Len(r) : \E j \in 1..Len(raw_name) :
                   r[i] = raw_name[j]
            /\ raw_name = <<>> => r = raw_name
            /\ IsBlank(raw_name) => r = <<>>

C20_Witness ==
    /\ normalized = Some(<<>>)
    /\ IsBlank(raw_name)
    /\ Len(raw_name) >= 2

----------------------------------------------------------------------------
(* Ingestion and the company linking pass (db/manager.py,                  *)
(* steps/normalize_companies.py)                                           *)

MaxUrls == 2

MaxBatch == 2

MaxLinkRuns == 2

(* UNIQUE(job_url) of job_postings: the conflict INSERT OR IGNORE skips *)
job_url_taken(postings, job_url) ==
    \E i \in 1..Len(postings) : postings[i].job_url = job_url

(* UNIQUE(name_normalized) of companies *)
name_normalized_taken(comps, name_normalized) ==
    \E i \in 1..Len(comps) : comps[i].name_normalized = name_normalized

(* Column defaults of a new job_postings row *)
DefaultIsRelevant == 1

(* The row one INSERT of insert_jobs stores for a job dict *)
PostingOf(job, today) ==
    [ source |-> job.source,
      job_url |-> job.job_url,
      job_title |-> job.job_title,
      company_name_raw |-> job.company_name_raw,
      company_id |-> NULL,
      location |-> job.location,
      post_date |-> IF job.post_date # NULL THEN Val(job.post_date)
                    ELSE today,
      job_description |-> job.job_description,
      seniority_level |-> job.seniority_level,
      employment_type |-> job.employment_type,
      is_relevant |-> DefaultIsRelevant ]

RECURSIVE InsertLoop(_, _, _, _)
InsertLoop(postings, jobs, k, today) ==
    IF k > Len(jobs) THEN postings
    ELSE InsertLoop(
             IF job_url_taken(postings, jobs[k].job_url) THEN postings
             ELSE Append(postings, PostingOf(jobs[k], today)),
             jobs, k + 1, today)

(* insert_jobs: the table after the call and the returned count *)
insert_jobs_returns_batch_size(postings, jobs, today) ==
    [ job_postings |-> InsertLoop(postings, jobs, 1, today),
      returned |-> Len(jobs) ]

insert_jobs(postings, jobs, today) ==
    IF jobs = <<>> THEN [ job_postings |-> postings, returned |-> 0 ]
    ELSE LET after == InsertLoop(postings, jobs, 1, today)
         IN  [ job_postings |-> after,
               returned |-> Len(after) - Len(postings) ]

NewCompany(name_normalized) ==
    [ name_normalized |-> name_normalized, headcount_poland |-> NULL ]

(* INSERT OR IGNORE INTO companies (name_normalized) VALUES (?) *)
insert_company_no_ignore(comps, name_normalized) ==
    Append(comps, NewCompany(name_normalized))

insert_company(comps, name_normalized) ==
    IF name_normalized_taken(comps, name_normalized) THEN comps
    ELSE Append(comps, NewCompany(name_normalized))

(* Step 1 of the pass over the rows of SELECT DISTINCT company_name_raw *)
RECURSIVE InsertCompanies(_, _, _)
InsertCompanies(comps, raw_names, k) ==
    IF k > Len(raw_names) THEN comps
    ELSE LET name == normalize_company_name(raw_names[k])
         IN  InsertCompanies(
                 IF name = <<>> THEN comps ELSE insert_company(comps, name),
                 raw_names, k + 1)

(* SELECT id FROM companies WHERE name_normalized = ? *)
CompanyIdByName(comps, name_normalized) ==
    LET ids == { i \in 1..Len(comps) :
                   comps[i].name_normalized = name_normalized }
    IN  IF ids = {} THEN NULL
        ELSE Some(CHOOSE i \in ids : \A j \in ids : i <= j)

(* Step 2 of the pass: the rows with company_id IS NULL are linked *)
LinkPostings_by_raw_name(postings, comps) ==
    [ i \in 1..Len(postings) |->
        LET found == CompanyIdByName(comps, postings[i].company_name_raw)
        IN  IF /\ postings[i].company_id = NULL
               /\ normalize_company_name(postings[i].company_name_raw) # <<>>
               /\ found # NULL
            THEN [postings[i] EXCEPT !.company_id = found]
            ELSE postings[i] ]

LinkPostings(postings, comps) ==
    [ i \in 1..Len(postings) |->
        LET name == normalize_company_name(postings[i].company_name_raw)
            found == CompanyIdByName(comps, name)
        IN  IF postings[i].company_id = NULL /\ name # <<>> /\ found # NULL
            THEN [postings[i] EXCEPT !.company_id = found]
            ELSE postings[i] ]

(* The orders in which SELECT DISTINCT may return the raw names *)
DistinctRawNames(postings) ==
    { postings[i].company_name_raw : i \in 1..Len(postings) }

Orders(S) ==
    { q \in [1..Cardinality(S) -> S] :
        \A i, j \in 1..Cardinality(S) : i # j => q[i] # q[j] }

(* Scraped jobs: two variants per job_url, which differ in the raw        *)
(* company name and in whether a post_date was scraped                     *)
RawNameList ==
    << <<"A", "c", "m", "e", " ", "S", ".", "A", ".">>,
       <<"B", "e", "t", "a">>,
       <<"A", "c", "m", "e">>,
       <<"S", ".", "A", ".">> >>

JobOf(u, v) ==
    [ source |-> "pracuj",
      job_url |-> u,
      job_title |-> Some(Title_HR_Manager),
      company_name_raw |->
          RawNameList[((2 * (u - 1) + (v - 1)) % Len(RawNameList)) + 1],
      location |-> Some(Loc_Warszawa),
      post_date |-> IF v = 1 THEN Some(Today0 - 1) ELSE NULL,
      job_description |-> NULL,
      seniority_level |-> Some("mid"),
      employment_type |-> NULL ]

Jobs == { JobOf(u, v) : u \in 1..MaxUrls, v \in 1..2 }

Batches == UNION { [1..n -> Jobs] : n \in 0..MaxBatch }

(* inserted keeps the job_urls of the batch next to the returned count *)
InsertJobs(jobs) ==
    LET r == insert_jobs(job_postings, jobs, Today(now))
    IN  /\ job_postings' = r.job_postings
        /\ inserted' = Some([job_urls |->
                                 { jobs[k].job_url : k \in 1..Len(jobs) },
                             returned |-> r.returned])
        /\ link_runs' = 0
        /\ UNCHANGED <<companies, now, result, signals, raw_name, normalized,
                   scored, run_log, report, hot_companies>>

(* normalize_companies.run_step; link_runs counts the passes made since   *)
(* the last insert_jobs call                                               *)
NormalizeCompanies ==
    /\ link_runs < MaxLinkRuns
    /\ link_runs' = link_runs + 1
    /\ inserted' = NULL
    /\ UNCHANGED <<now, result, signals, raw_name, normalized,
                   scored, run_log, report, hot_companies>>
    /\ \E raw_names \in Orders(DistinctRawNames(job_postings)) :
          LET comps == InsertCompanies(companies, raw_names, 1)
          IN  /\ companies' = comps
              /\ job_postings' = LinkPostings(job_postings, comps)

NextIngest ==
    \/ \E jobs \in Batches : InsertJobs(jobs)
    \/ NormalizeCompanies

InitIngest ==
    /\ job_postings = <<>>
    /\ companies = <<>>
    /\ now = 2 * Today0
    /\ result = NULL
    /\ signals = <<>>
    /\ inserted = NULL
    /\ link_runs = 0
    /\ scored = NULL
    /\ run_log = <<>>
    /\ report = NULL
    /\ hot_companies = NULL
    /\ raw_name = <<>>
    /\ normalized = NULL

SpecIngest == InitIngest /\ [][NextIngest]_vars

----------------------------------------------------------------------------
(* Claims about ingestion and the linking pass *)

UniqueUrls(postings) ==
    \A i, j \in 1..Len(postings) :
        i # j => postings[i].job_url # postings[j].job_url

StoredUrls == { job_postings[i].job_url : i \in 1..Len(job_postings) }

(* C14: ingestion is idempotent on job_url: the store never holds two     *)
(* postings with one job_url; an insert_jobs call (the step that sets      *)
(* inserted) leaves every stored row as it was, adds one row per new       *)
(* job_url of the batch and returns the number of rows added, which is 0   *)
(* (and the table is unchanged) for a batch of already stored URLs         *)
C14_IdempotentIngestion ==
    [][ /\ UniqueUrls(job_postings')
        /\ (inserted' # NULL /\ link_runs' = 0) =>
              LET urls == Val(inserted').job_urls
                  added == Len(job_postings') - Len(job_postings)
              IN  /\ added >= 0
                  /\ SubSeq(job_postings', 1, Len(job_postings))
                         = job_postings
                  /\ added = Cardinality(urls \ StoredUrls)
                  /\ Val(inserted').returned = added
                  /\ urls \subseteq StoredUrls =>
                        /\ job_postings' = job_postings
                        /\ Val(inserted').returned = 0 ]_vars

C14_Witness ==
    /\ inserted # NULL
    /\ Val(inserted).job_urls # {}
    /\ Val(inserted).returned = 0
    /\ Len(job_postings) >= 1

(* C15: the linking pass is idempotent: a pass run directly after a pass   *)
(* changes no row of companies and no row of job_postings                  *)
C15_LinkingIdempotent ==
    [][ (link_runs >= 1 /\ NormalizeCompanies)
            => (companies' = companies /\ job_postings' = job_postings) ]_vars

C15_Witness ==
    /\ link_runs = 2
    /\ Len(companies) >= 2
    /\ \E i \in 1..Len(job_postings) : job_postings[i].company_id # NULL

(* C16: after the linking pass companies holds exactly one row per         *)
(* non-empty normalized name of the postings and no two rows with one      *)
(* name; every posting that had no company_id and a non-empty normalized   *)
(* name is linked to the company of that name, so postings with the same   *)
(* normalized name have the same company; a posting that had a company_id  *)
(* keeps it                                                                *)
C16_LinkingPostConditions ==
    [][ NormalizeCompanies =>
          LET P == 1..Len(job_postings)
              C == 1..Len(companies')
              name == [ i \in P |->
                  normalize_company_name(job_postings[i].company_name_raw) ]
          IN  /\ Len(job_postings') = Len(job_postings)
              /\ \A i \in P :
                    name[i] # <<>> =>
                        Cardinality({ c \in C :
                            companies'[c].name_normalized = name[i] }) = 1
              /\ \A c, d \in C :
                    c # d => companies'[c].name_normalized
                                 # companies'[d].name_normalized
              /\ \A c \in C : companies'[c].name_normalized # <<>>
              /\ \A i \in P :
                    (job_postings[i].company_id = NULL /\ name[i] # <<>>) =>
                      /\ job_postings'[i].company_id # NULL
                      /\ Val(job_postings'[i].company_id) \in C
                      /\ companies'[Val(job_postings'[i].company_id)]
                             .name_normalized = name[i]
              /\ \A i, j \in P :
                    (name[i] = name[j] /\ name[i] # <<>>) =>
                      job_postings'[i].company_id
                          = job_postings'[j].company_id
              /\ \A i \in P :
                    job_postings[i].company_id # NULL =>
                      job_postings'[i].company_id
                          = job_postings[i].company_id ]_vars

C16_Witness ==
    /\ link_runs >= 1
    /\ \E i, j \in 1..Len(job_postings) :
          /\ job_postings[i].company_name_raw
                 # job_postings[j].company_name_raw
          /\ job_postings[i].company_id # NULL
          /\ job_postings[i].company_id = job_postings[j].company_id

----------------------------------------------------------------------------
(* Scoring runs: the pipeline step (steps/score_companies.py) and the CLI  *)
(* score command (cli.py)                                                  *)

MaxSigPostings == 2

SelectCompanies_any_count(postings, nw, days, min_count) ==
    { c \in { Val(postings[i].company_id) :
                i \in { j \in 1..Len(postings) :
                          postings[j].company_id # NULL } } :
        count_postings(postings, nw, c, days) >= 1 }

(* Companies with at least min_count relevant postings in the window, in  *)
(* the orders ORDER BY posting_count DESC allows                           *)
SelectCompanies(postings, nw, days, min_count) ==
    { c \in { Val(postings[i].company_id) :
                i \in { j \in 1..Len(postings) :
                          postings[j].company_id # NULL } } :
        count_postings(postings, nw, c, days) >= min_count }

RankedOrders(postings, nw, days, min_count) ==
    { q \in Orders(SelectCompanies(postings, nw, days, min_count)) :
        \A i, j \in 1..Len(q) :
            i < j => count_postings(postings, nw, q[i], days)
                         >= count_postings(postings, nw, q[j], days) }

(* The signal dict the pipeline step builds from a result *)
SignalOf(r, posting_count, today) ==
    [ company_id |-> r.company_id,
      signal_date |-> today,
      signal_type |-> "hiring_velocity",
      signal_strength |-> r.final_score,
      velocity_score |-> r.velocity,
      posting_count_7d |-> r.posting_count_7d,
      posting_count_30d |-> r.posting_count_30d,
      posting_count_90d |-> posting_count,
      has_director_role |-> r.has_director_role,
      has_wellbeing_keywords |-> r.has_wellbeing_keywords,
      multi_city_expansion |-> r.multi_city_expansion,
      final_score |-> r.final_score,
      lead_temperature |-> r.lead_temperature ]

MaxRuns == 2

Range(q) == { q[i] : i \in DOMAIN q }

(* The loop of the pipeline step; calculate_final_score raises for the    *)
(* companies in failing, and the handler moves on to the next row          *)
RECURSIVE PipelineLoop(_, _, _, _, _, _, _, _)
PipelineLoop(sigs, scored_list, postings, comps, nw, rows, failing, k) ==
    IF k > Len(rows) THEN [ signals |-> sigs, scored |-> scored_list ]
    ELSE IF rows[k] \in failing
    THEN PipelineLoop(sigs, scored_list, postings, comps, nw, rows,
                      failing, k + 1)
    ELSE LET r == calculate_final_score(postings, comps, nw, rows[k])
             signal == SignalOf(r, count_postings(postings, nw, rows[k], 30),
                                Today(nw))
         IN  PipelineLoop(save_signal(sigs, signal, Today(nw)),
                          Append(scored_list, r),
                          postings, comps, nw, rows, failing, k + 1)

(* The CLI passes the result itself to save_signal and has no handler: an *)
(* exception of calculate_final_score leaves the loop and the command,     *)
(* the rows saved before it stay committed                                 *)
RECURSIVE CliLoop(_, _, _, _, _, _, _)
CliLoop(sigs, postings, comps, nw, rows, failing, k) ==
    IF k > Len(rows) \/ rows[k] \in failing THEN sigs
    ELSE LET r == calculate_final_score(postings, comps, nw, rows[k])
         IN  CliLoop(save_signal(sigs, r, Today(nw)),
                     postings, comps, nw, rows, failing, k + 1)

(* run_log records each scoring run: its kind, the rows its query          *)
(* returned, in order, and the companies whose scoring raised              *)
ScoreCompanies(failing) ==
    /\ Len(run_log) < MaxRuns
    /\ UNCHANGED <<job_postings, companies, now, result, inserted, link_runs,
                   raw_name, normalized, report, hot_companies>>
    /\ \E rows \in RankedOrders(job_postings, now, 30, 2) :
          /\ failing \subseteq Range(rows)
          /\ LET out == PipelineLoop(signals, <<>>, job_postings, companies,
                                     now, rows, failing, 1)
             IN  /\ Len(out.signals) <= MaxSignals
                 /\ signals' = out.signals
                 /\ scored' = Some(out.scored)
          /\ run_log' = Append(run_log, [ kind |-> "pipeline", rows |-> rows,
                                          failing |-> failing ])

CliScore(failing) ==
    /\ Len(run_log) < MaxRuns
    /\ UNCHANGED <<job_postings, companies, now, result, inserted, link_runs,
                   raw_name, normalized, scored, report, hot_companies>>
    /\ \E rows \in RankedOrders(job_postings, now, 90, 1) :
          /\ failing \subseteq Range(rows)
          /\ signals' = CliLoop(signals, job_postings, companies, now,
                                rows, failing, 1)
          /\ Len(signals') <= MaxSignals
          /\ run_log' = Append(run_log, [ kind |-> "cli", rows |-> rows,
                                          failing |-> failing ])

LastRun == run_log[Len(run_log)]

(* A step is a scoring run of the given kind when it adds an entry of that *)
(* kind to run_log                                                         *)
RunStep(kind) ==
    /\ Len(run_log') = Len(run_log) + 1
    /\ LastRun'.kind = kind

(* The companies a logged run scored: all but the failing ones in the      *)
(* pipeline step, those before the first failing one in the CLI command    *)
ScoredBy(run) ==
    IF run.kind = "pipeline" THEN Range(run.rows) \ run.failing
    ELSE { run.rows[i] : i \in { j \in 1..Len(run.rows) :
                                   \A h \in 1..j : run.rows[h] \notin run.failing } }

(* Signal dicts passed to save_signal directly: the one of the test, and   *)
(* one that leaves signal_date and signal_type to their defaults           *)
SignalDicts ==
    { [ company_id |-> 1, signal_date |-> Today0,
        signal_type |-> "hiring_velocity", final_score |-> 83,
        lead_temperature |-> "hot", posting_count_7d |-> 3,
        posting_count_30d |-> 4 ],
      [ company_id |-> 1, final_score |-> 40, lead_temperature |-> "cold" ] }

SaveSignal(signal_dict) ==
    /\ Len(signals) < MaxSignals
    /\ signals' = save_signal(signals, signal_dict, Today(now))
    /\ UNCHANGED <<job_postings, companies, now, result, inserted, link_runs,
                   raw_name, normalized,
                   scored, run_log, report, hot_companies>>

NextSignals ==
    \/ \E company_id \in CompanyIds : CalculateFinalScore(company_id)
    \/ Tick
    \/ ScoreCompanies({})
    \/ CliScore({})
    \/ \E signal_dict \in SignalDicts : SaveSignal(signal_dict)

SignalStoreRows ==
    { Row(Some(1), Some(Title_HR_Director), Some(Loc_Warszawa), Today0 - 2,
          Some(Desc_Wellbeing_EAP), Some("director"), 1),
      Row(Some(2), Some(Title_HR_Manager), Some(Loc_Warszawa), Today0 - 40,
          Some(Desc_HR_ops), Some("mid"), 1) }

InitSignals == InitOver(SignalStoreRows, MaxSigPostings, {Some(450)}, {NULL})

SpecSignals == InitSignals /\ [][NextSignals]_vars

----------------------------------------------------------------------------
(* Claims about scoring and the signal store *)

(* C11: calculate_final_score is a pure read: a call (result' is what it   *)
(* returned, for the company id it was given) leaves job_postings,         *)
(* companies and signals as they were, for every company id and store; a   *)
(* signal row appears only through save_signal, called directly or by a    *)
(* scoring run                                                             *)
C11_PureRead ==
    [][ /\ (result' # NULL
              /\ Val(result').company_id \in CompanyIds
              /\ CalculateFinalScore(Val(result').company_id))
            => UNCHANGED <<job_postings, companies, signals>>
        /\ signals' # signals =>
              \/ \E signal_dict \in SignalDicts : SaveSignal(signal_dict)
              \/ RunStep("pipeline")
              \/ RunStep("cli") ]_vars

C11_Witness ==
    /\ result # NULL
    /\ signals # <<>>
    /\ job_postings # <<>>
    /\ Val(result).final_score > 0

(* C12: the signal store is append-only: no step updates or deletes a      *)
(* signal row, every save_signal call adds exactly one row, also when a    *)
(* row of the same company and signal_date exists, and a scoring run adds  *)
(* one row per company it scores                                           *)
C12_AppendOnly ==
    [][ /\ Len(signals') >= Len(signals)
        /\ SubSeq(signals', 1, Len(signals)) = signals
        /\ \A signal_dict \in SignalDicts :
              SaveSignal(signal_dict) => Len(signals') = Len(signals) + 1
        /\ RunStep("pipeline") =>
              /\ Range(LastRun'.rows) = SelectCompanies(job_postings, now, 30, 2)
              /\ Len(signals') = Len(signals) + Cardinality(ScoredBy(LastRun'))
        /\ RunStep("cli") =>
              /\ Range(LastRun'.rows) = SelectCompanies(job_postings, now, 90, 1)
              /\ Len(signals') = Len(signals) + Cardinality(ScoredBy(LastRun'))
      ]_vars

C12_Witness ==
    \E i, j \in 1..Len(signals) :
        /\ i # j
        /\ signals[i].company_id = signals[j].company_id
        /\ signals[i].signal_date = signals[j].signal_date

Recorded(row, column, v) == column \in DOMAIN row /\ row[column] = Some(v)

(* C13: every signal row a scoring run (pipeline step or CLI command)      *)
(* appends records the five dimension scores, posting_count_7d,            *)
(* posting_count_30d, the three flags, final_score and lead_temperature    *)
(* with the values the composite scorer returned for the row's company     *)
C13_SignalRecordsResult ==
    [][ (RunStep("pipeline") \/ RunStep("cli")) =>
          \A k \in (Len(signals) + 1)..Len(signals') :
              LET row == signals'[k]
                  r == calculate_final_score(job_postings, companies, now,
                                             Val(row.company_id))
              IN  /\ Recorded(row, "final_score", r.final_score)
                  /\ Recorded(row, "lead_temperature", r.lead_temperature)
                  /\ Recorded(row, "posting_count_7d", r.posting_count_7d)
                  /\ Recorded(row, "posting_count_30d", r.posting_count_30d)
                  /\ Recorded(row, "has_director_role", r.has_director_role)
                  /\ Recorded(row, "has_wellbeing_keywords",
                              r.has_wellbeing_keywords)
                  /\ Recorded(row, "multi_city_expansion",
                              r.multi_city_expansion)
                  /\ Recorded(row, "velocity_score", r.velocity)
                  /\ Recorded(row, "seniority_score", r.seniority)
                  /\ Recorded(row, "icp_score", r.icp)
                  /\ Recorded(row, "content_score", r.content)
                  /\ Recorded(row, "recency_score", r.recency) ]_vars

----------------------------------------------------------------------------
(* Scoring runs over a linked store, with scoring failures                 *)

(* Company 1 has two postings of the last 30 days and one 40 days old;    *)
(* company 2 has two, the older one leaving the 30-day window on the next  *)
(* day; a store holds the first n of them                                  *)
RunStoreRows ==
    << Row(Some(1), Some(Title_HR_Director), Some(Loc_Warszawa), Today0 - 2,
           Some(Desc_Wellbeing_EAP), Some("director"), 1),
       Row(Some(1), Some(Title_HR_Manager), Some(Loc_Krakow), Today0 - 5,
           Some(Desc_HR_ops), Some("mid"), 1),
       Row(Some(1), Some(Title_HR_Manager), Some(Loc_Warszawa), Today0 - 40,
           NULL, Some("senior"), 1),
       Row(Some(2), Some(Title_HR_Manager), Some(Loc_Warszawa), Today0 - 1,
           Some(Desc_HR_ops), Some("mid"), 1),
       Row(Some(2), Some(Title_Koordynator), Some(Loc_Warszawa), Today0 - 30,
           NULL, NULL, 1) >>

RunStore == [ i \in 1..Len(RunStoreRows) |-> [RunStoreRows[i] EXCEPT !.job_url = i] ]

NextRuns ==
    \/ Tick
    \/ \E failing \in SUBSET CompanyIds : ScoreCompanies(failing)
    \/ \E failing \in SUBSET CompanyIds : CliScore(failing)

InitRuns ==
    /\ job_postings \in { SubSeq(RunStore, 1, n) : n \in 0..Len(RunStore) }
    /\ companies = <<Company(Some(450)), Company(NULL)>>
    /\ now = 2 * Today0
    /\ result = NULL
    /\ signals = <<>>
    /\ inserted = NULL
    /\ link_runs = 0
    /\ scored = NULL
    /\ run_log = <<>>
    /\ report = NULL
    /\ hot_companies = NULL
    /\ raw_name = <<>>
    /\ normalized = NULL

SpecRuns == InitRuns /\ [][NextRuns]_vars

(* The rows a step appended to signals, for one company *)
NewRowsOf(company_id) ==
    { k \in (Len(signals) + 1)..Len(signals') :
        signals'[k].company_id = Some(company_id) }

(* C21: in a batch scoring run (pipeline step or CLI command) a company   *)
(* whose scoring raises is skipped: it gets no signal row and is absent    *)
(* from the scored list, while every other company the run's query         *)
(* returned is still scored and gets exactly one signal row                *)
C21_FailureIsolation ==
    [][ (RunStep("pipeline") \/ RunStep("cli")) =>
          LET run == LastRun'
          IN  /\ \A c \in run.failing : NewRowsOf(c) = {}
              /\ \A c \in Range(run.rows) \ run.failing :
                     Cardinality(NewRowsOf(c)) = 1
              /\ run.kind = "pipeline" =>
                     { Val(scored')[i].company_id : i \in 1..Len(Val(scored')) }
                         = Range(run.rows) \ run.failing ]_vars

(* A linked company qualifies for the pipeline step with at least two    *)
(* relevant postings dated within the last 30 days                         *)
Qualifies(company_id) ==
    Cardinality({ i \in 1..Len(job_postings) :
                    /\ job_postings[i].company_id = Some(company_id)
                    /\ job_postings[i].is_relevant = 1
                    /\ job_postings[i].post_date >= Today(now) - 30 }) >= 2

SignalRowsOf(company_id) ==
    { k \in 1..Len(signals) : signals[k].company_id = Some(company_id) }

NoScoringError == \A k \in 1..Len(run_log) : run_log[k].failing = {}

(* C22: a run of the pipeline scoring step in which no scoring error      *)
(* occurs appends exactly one signal row for every qualifying company and  *)
(* none for any other; after n such runs a company that qualified in each  *)
(* has exactly n rows, and of two rows of a company the later one never    *)
(* has the earlier signal_date, so the latest signal is the one with the   *)
(* most recent signal_date                                                 *)
C22_OneRowPerRun ==
    /\ [][ (RunStep("pipeline") /\ LastRun'.failing = {}) =>
             /\ \A c \in CompanyIds :
                   Cardinality(NewRowsOf(c)) = IF Qualifies(c) THEN 1 ELSE 0
             /\ Len(signals') - Len(signals)
                   = Cardinality({ c \in CompanyIds : Qualifies(c) }) ]_vars
    /\ [](( /\ NoScoringError
            /\ \A k \in 1..Len(run_log) : run_log[k].kind = "pipeline" ) =>
            \A c \in CompanyIds :
               /\ (\A k \in 1..Len(run_log) : c \in Range(run_log[k].rows))
                     => Cardinality(SignalRowsOf(c)) = Len(run_log)
               /\ \A i, j \in SignalRowsOf(c) :
                     i < j => Val(signals[i].signal_date)
                                 <= Val(signals[j].signal_date))

C22_Witness ==
    /\ Len(run_log) = 2
    /\ NoScoringError
    /\ \A k \in 1..Len(run_log) : run_log[k].kind = "pipeline"
    /\ \E c \in CompanyIds : \E i, j \in SignalRowsOf(c) :
          /\ i < j
          /\ Val(signals[i].signal_date) < Val(signals[j].signal_date)
    /\ \E c \in CompanyIds :
          /\ SignalRowsOf(c) = {}
          /\ \E i \in 1..Len(job_postings) : job_postings[i].company_id = Some(c)

----------------------------------------------------------------------------
(* The weekly report (reporting/composer.py) and get_hot_companies         *)
(* (db/manager.py)                                                         *)

DefaultIsExistingCustomer == 0

is_existing_customer(comps, company_id) ==
    IF "is_existing_customer" \in DOMAIN comps[company_id]
    THEN comps[company_id].is_existing_customer
    ELSE DefaultIsExistingCustomer

(* FROM signals s JOIN companies c ON s.company_id = c.id *)
JoinedRows(sigs, comps) ==
    { k \in 1..Len(sigs) :
        /\ sigs[k].company_id # NULL
        /\ Val(sigs[k].company_id) \in DOMAIN comps }

(* s.signal_date >= date('now', '-N days') *)
SinceDays(row, nw, days) ==
    /\ row.signal_date # NULL
    /\ Val(row.signal_date) >= Today(nw) - days

QuerySignalRows_with_customers(sigs, comps, nw, temperature, days) ==
    { k \in JoinedRows(sigs, comps) :
        /\ sigs[k].lead_temperature = Some(temperature)
        /\ SinceDays(sigs[k], nw, days) }

QuerySignalRows(sigs, comps, nw, temperature, days) ==
    { k \in JoinedRows(sigs, comps) :
        /\ sigs[k].lead_temperature = Some(temperature)
        /\ SinceDays(sigs[k], nw, days)
        /\ is_existing_customer(comps, Val(sigs[k].company_id)) = 0 }

(* ORDER BY s.final_score DESC: NULL sorts last, equal scores in any order *)
ScoreKey(row) == IF row.final_score = NULL THEN -1 ELSE Val(row.final_score)

ByScoreDesc(sigs, rows) ==
    { q \in Orders(rows) :
        \A i, j \in 1..Len(q) :
            i < j => ScoreKey(sigs[q[i]]) >= ScoreKey(sigs[q[j]]) }

ReportRow(sigs, comps, k) ==
    [ signal_id |-> k,
      company_id |-> Val(sigs[k].company_id),
      headcount_poland |-> comps[Val(sigs[k].company_id)].headcount_poland,
      final_score |-> sigs[k].final_score,
      posting_count_7d |-> sigs[k].posting_count_7d,
      posting_count_30d |-> sigs[k].posting_count_30d,
      has_director_role |-> sigs[k].has_director_role,
      has_wellbeing_keywords |-> sigs[k].has_wellbeing_keywords,
      multi_city_expansion |-> sigs[k].multi_city_expansion ]

(* The lists _query_signals can return *)
query_signals(sigs, comps, nw, temperature, days) ==
    { [ i \in 1..Len(q) |-> ReportRow(sigs, comps, q[i]) ] :
        q \in ByScoreDesc(sigs, QuerySignalRows(sigs, comps, nw,
                                                temperature, days)) }

(* total_companies is the number the subject line starts with *)
ComposeWeeklyReport ==
    /\ UNCHANGED <<job_postings, companies, now, result, signals, inserted,
                   link_runs, raw_name, normalized, scored, run_log,
                   hot_companies>>
    /\ \E hot_signals \in query_signals(signals, companies, now, "hot", 7) :
       \E warm_signals \in query_signals(signals, companies, now, "warm", 7) :
          report' = Some([ hot_signals |-> hot_signals,
                           warm_signals |-> warm_signals,
                           total_companies |-> Len(hot_signals)
                                                 + Len(warm_signals),
                           hot_count |-> Len(hot_signals),
                           warm_count |-> Len(warm_signals) ])

HotCompanyRows(sigs, comps, nw, min_score) ==
    { k \in JoinedRows(sigs, comps) :
        /\ sigs[k].final_score # NULL
        /\ Val(sigs[k].final_score) >= min_score
        /\ is_existing_customer(comps, Val(sigs[k].company_id)) = 0
        /\ SinceDays(sigs[k], nw, 7) }

HotCompanyRow(sigs, comps, k) ==
    [ company_id |-> Val(sigs[k].company_id),
      headcount_poland |-> comps[Val(sigs[k].company_id)].headcount_poland,
      posting_count_7d |-> sigs[k].posting_count_7d,
      posting_count_30d |-> sigs[k].posting_count_30d,
      final_score |-> sigs[k].final_score,
      lead_temperature |-> sigs[k].lead_temperature,
      has_director_role |-> sigs[k].has_director_role,
      has_wellbeing_keywords |-> sigs[k].has_wellbeing_keywords,
      multi_city_expansion |-> sigs[k].multi_city_expansion,
      signal_date |-> sigs[k].signal_date ]

(* The lists get_hot_companies can return *)
get_hot_companies(sigs, comps, nw, min_score) ==
    { [ i \in 1..Len(q) |-> HotCompanyRow(sigs, comps, q[i]) ] :
        q \in ByScoreDesc(sigs, HotCompanyRows(sigs, comps, nw, min_score)) }

(* The default min_score and the hot threshold *)
MinScores == {50, 75}

(* hot_companies holds the argument of the call and the list it returned *)
GetHotCompanies(min_score) ==
    /\ UNCHANGED <<job_postings, companies, now, result, signals, inserted,
                   link_runs, raw_name, normalized, scored, run_log, report>>
    /\ \E rows \in get_hot_companies(signals, companies, now, min_score) :
          hot_companies' = Some([ min_score |-> min_score, rows |-> rows ])

(* Signals as the tests seed them *)
SeedSignal(company_id, temperature, score, signal_date) ==
    SignalRow([ company_id |-> company_id,
                signal_date |-> signal_date,
                signal_type |-> "hiring_velocity",
                signal_strength |-> score,
                velocity_score |-> 30,
                posting_count_7d |-> 2,
                posting_count_30d |-> 3,
                posting_count_90d |-> 4,
                has_director_role |-> FALSE,
                has_wellbeing_keywords |-> FALSE,
                multi_city_expansion |-> FALSE,
                final_score |-> score,
                lead_temperature |-> temperature ], signal_date)

(* In the order of their dates, as earlier runs would have appended them *)
ReportSeeds ==
    << SeedSignal(3, "hot", 80, Today0 - 8),
       SeedSignal(3, "warm", 55, Today0 - 7),
       SeedSignal(1, "hot", 83, Today0 - 1),
       SeedSignal(1, "cold", 40, Today0),
       SeedSignal(2, "hot", 90, Today0),
       SeedSignal(3, "warm", 60, Today0),
       SeedSignal(3, "hot", 83, Today0) >>

SeedStores ==
    UNION { { [ i \in 1..k |-> ReportSeeds[s[i]] ] :
                s \in SortedIdx(k, 1, Len(ReportSeeds)) } : k \in 0..MaxSignals }

NextReport ==
    \/ Tick
    \/ ScoreCompanies({})
    \/ ComposeWeeklyReport
    \/ \E min_score \in MinScores : GetHotCompanies(min_score)

(* Company 2 is an existing customer; company 3 has the column's default *)
InitReport ==
    /\ job_postings = SubSeq(RunStore, 1, 3)
    /\ companies = << [ headcount_poland |-> Some(450),
                        is_existing_customer |-> 0 ],
                      [ headcount_poland |-> NULL,
                        is_existing_customer |-> 1 ],
                      Company(NULL) >>
    /\ signals \in SeedStores
    /\ now = 2 * Today0
    /\ result = NULL
    /\ inserted = NULL
    /\ link_runs = 0
    /\ scored = NULL
    /\ run_log = <<>>
    /\ report = NULL
    /\ hot_companies = NULL
    /\ raw_name = <<>>
    /\ normalized = NULL

SpecReport == InitReport /\ [][NextReport]_vars

----------------------------------------------------------------------------
(* Claims about the report and the hot-company query *)

NotCustomer(company_id) ==
    /\ company_id \in DOMAIN companies
    /\ ~ ( /\ "is_existing_customer" \in DOMAIN companies[company_id]
           /\ companies[company_id].is_existing_customer # 0 )

(* The signals of one temperature dated within the last 7 days whose       *)
(* company is not an existing customer                                     *)
ReportableSignals(temperature) ==
    { k \in 1..Len(signals) :
        /\ signals[k].lead_temperature = Some(temperature)
        /\ Val(signals[k].signal_date) >= Today(now) - 7
        /\ Val(signals[k].signal_date) <= Today(now)
        /\ NotCustomer(Val(signals[k].company_id)) }

SignalIds(list) == { list[i].signal_id : i \in 1..Len(list) }

SortedByScoreDesc(list) ==
    \A i, j \in 1..Len(list) :
        i < j => Val(list[i].final_score) >= Val(list[j].final_score)

(* C23: a composed report lists exactly the signals that are hot or warm, *)
(* dated within the last 7 days and of a company that is not an existing   *)
(* customer, each once in the list of its temperature; hot_count and       *)
(* warm_count are their numbers, each list is in descending final_score    *)
(* order, and no cold, older or existing-customer signal is listed         *)
C23_ReportReadsHotWarm ==
    [][ report' # report =>
          LET r == Val(report')
              listed == SignalIds(r.hot_signals) \cup SignalIds(r.warm_signals)
          IN  /\ SignalIds(r.hot_signals) = ReportableSignals("hot")
              /\ SignalIds(r.warm_signals) = ReportableSignals("warm")
              /\ Len(r.hot_signals) = Cardinality(ReportableSignals("hot"))
              /\ Len(r.warm_signals) = Cardinality(ReportableSignals("warm"))
              /\ r.hot_count = Cardinality(ReportableSignals("hot"))
              /\ r.warm_count = Cardinality(ReportableSignals("warm"))
              /\ SortedByScoreDesc(r.hot_signals)
              /\ SortedByScoreDesc(r.warm_signals)
              /\ \A k \in listed :
                    /\ signals[k].lead_temperature # Some("cold")
                    /\ Val(signals[k].signal_date) >= Today(now) - 7
                    /\ NotCustomer(Val(signals[k].company_id)) ]_vars

(* A report with a listed signal while the store also holds a signal that  *)
(* is left out: cold, older than 7 days or of an existing customer         *)
C23_Witness ==
    /\ report # NULL
    /\ Val(report).hot_count + Val(report).warm_count >= 1
    /\ Len(signals) >= 2
    /\ \E k \in 1..Len(signals) :
          /\ k \notin SignalIds(Val(report).hot_signals)
                         \cup SignalIds(Val(report).warm_signals)
          /\ \/ signals[k].lead_temperature = Some("cold")
             \/ Val(signals[k].signal_date) < Today(now) - 7
             \/ ~NotCustomer(Val(signals[k].company_id))

(* The latest signal of a company: the most recent signal_date, the row   *)
(* appended last among those of that date                                  *)
LatestSignal(company_id) ==
    CHOOSE k \in SignalRowsOf(company_id) :
        \A h \in SignalRowsOf(company_id) :
            \/ Val(signals[h].signal_date) < Val(signals[k].signal_date)
            \/ /\ Val(signals[h].signal_date) = Val(signals[k].signal_date)
               /\ h <= k

(* C24: get_hot_companies returns a company that is not an existing       *)
(* customer if and only if its latest signal has final_score >= min_score, *)
(* once and with that latest signal; an older signal above min_score does  *)
(* not make a company appear                                               *)
C24_LatestSignalDecides ==
    [][ hot_companies' # hot_companies =>
          LET h == Val(hot_companies')
          IN  \A c \in CompanyIds :
                 LET returned == { i \in 1..Len(h.rows) :
                                     h.rows[i].company_id = c }
                 IN  IF /\ NotCustomer(c)
                        /\ SignalRowsOf(c) # {}
                        /\ Val(signals[LatestSignal(c)].final_score)
                              >= h.min_score
                     THEN /\ Cardinality(returned) = 1
                          /\ \A i \in returned :
                                /\ h.rows[i].signal_date
                                      = signals[LatestSignal(c)].signal_date
                                /\ h.rows[i].final_score
                                      = signals[LatestSignal(c)].final_score
                     ELSE returned = {} ]_vars

(* C30: a composed report lists each company at most once across its hot  *)
(* and warm lists, also when several signals of the company lie in the     *)
(* 7-day window, so that hot_count + warm_count, the number of the subject *)
(* line, is the number of distinct companies, not existing customers, with *)
(* a hot or warm signal of the last 7 days                                 *)
C30_CompanyListedOnce ==
    [][ report' # report =>
          LET r == Val(report')
              all == r.hot_signals \o r.warm_signals
              reported == { Val(signals[k].company_id) :
                              k \in ReportableSignals("hot")
                                      \cup ReportableSignals("warm") }
          IN  /\ \A i, j \in 1..Len(all) :
                    i # j => all[i].company_id # all[j].company_id
              /\ r.hot_count + r.warm_count = Cardinality(reported)
              /\ r.total_companies = Cardinality(reported) ]_vars

----------------------------------------------------------------------------
(* Claims about the relations between the scores *)

(* The seniority levels of the company's relevant postings of the last 30 *)
(* days                                                                    *)
LevelsOf(company_id) ==
    { Val(job_postings[i].seniority_level) :
        i \in { j \in Recent(company_id, 30) :
                  job_postings[j].seniority_level # NULL } }

(* The three sub-awards of the seniority scorer, before the cap *)
SubAwards(company_id) ==
    (IF LevelsOf(company_id) \cap {"director", "c-level"} # {} THEN 15 ELSE 0)
    + (IF "senior" \in LevelsOf(company_id) THEN 5 ELSE 0)
    + (IF Cardinality(LevelsOf(company_id)) >= 2 THEN 5 ELSE 0)

(* C25 as stated: the sum of the three sub-awards never exceeds 20, so    *)
(* the cap never changes the result                                        *)
C25_CapNeverActs_AsStated ==
    result # NULL =>
        /\ SubAwards(Val(result).company_id) <= 20
        /\ Val(result).seniority = SubAwards(Val(result).company_id)

(* C25: the sum of the three sub-awards is at most 25, and it is 25       *)
(* exactly when a director or c-level posting and a senior posting are     *)
(* both present (two distinct levels); the cap then lowers the score to    *)
(* 20, and leaves every smaller sum unchanged                              *)
C25_CapLowersFullMix ==
    result # NULL =>
        LET r == Val(result)
            sum == SubAwards(r.company_id)
            L == LevelsOf(r.company_id)
        IN  /\ sum \in {0, 5, 10, 15, 20, 25}
            /\ sum = 25 <=> (L \cap {"director", "c-level"} # {}
                               /\ "senior" \in L)
            /\ sum = 25 => r.seniority = 20
            /\ sum < 25 => r.seniority = sum
            /\ r.seniority <= 20

C25_Witness ==
    /\ result # NULL
    /\ SubAwards(Val(result).company_id) = 25
    /\ Val(result).seniority = 20
    /\ LevelsOf(Val(result).company_id) = {"director", "senior"}

(* The company's relevant postings dated within the 90 days before the run *)
Count90(company_id) ==
    Cardinality({ i \in 1..Len(job_postings) :
                    /\ job_postings[i].company_id = Some(company_id)
                    /\ job_postings[i].is_relevant = 1
                    /\ job_postings[i].post_date >= Today(now) - 90 })

(* C26: the posting_count_90d of a signal row written by a scoring run    *)
(* (pipeline step or CLI command) is the number of the company's relevant  *)
(* postings dated within the 90 days before the run, and is at least the   *)
(* stored posting_count_30d, which is at least the stored posting_count_7d *)
C26_Count90Stored ==
    [][ (RunStep("pipeline") \/ RunStep("cli")) =>
          \A k \in (Len(signals) + 1)..Len(signals') :
              LET row == signals'[k]
              IN  /\ row.posting_count_90d
                        = Some(Count90(Val(row.company_id)))
                  /\ Val(row.posting_count_90d) >= Val(row.posting_count_30d)
                  /\ Val(row.posting_count_30d) >= Val(row.posting_count_7d)
      ]_vars

(* C27: in every result of calculate_final_score the metadata agrees with *)
(* the dimension scores: has_director_role exactly when seniority >= 15,   *)
(* posting_count_7d >= 3 exactly when velocity = 40, has_wellbeing_keywords *)
(* only with content >= 5, and posting_count_7d <= posting_count_30d       *)
C27_MetadataAgrees ==
    result # NULL =>
        LET r == Val(result)
        IN  /\ r.has_director_role <=> r.seniority >= 15
            /\ r.posting_count_7d >= 3 <=> r.velocity = 40
            /\ r.has_wellbeing_keywords => r.content >= 5
            /\ r.posting_count_7d <= r.posting_count_30d

C27_Witness ==
    /\ result # NULL
    /\ Val(result).has_director_role
    /\ Val(result).seniority >= 15
    /\ Val(result).posting_count_7d = 3
    /\ Val(result).posting_count_30d = 3
    /\ Val(result).velocity = 40
    /\ Val(result).has_wellbeing_keywords
    /\ Val(result).content >= 5

----------------------------------------------------------------------------
(* Scores over time and over growing stores *)

MaxTrendPostings == 3

(* Postings on the edge of the 7-, 30- and 90-day windows, one dated      *)
(* tomorrow, one without title, description and seniority, and one of a    *)
(* second company                                                          *)
TrendRows ==
    { Row(Some(1), p[1], p[2], d, p[3], p[4], 1) :
        p \in { <<Some(Title_HR_Director), Some(Loc_Warszawa),
                  Some(Desc_Wellbeing_EAP), Some("director")>>,
                <<Some(Title_Head_of_wellbeing), Some(Loc_Krakow),
                  Some(Desc_All_Three), Some("senior")>> },
        d \in {Today0 - 7, Today0 - 30, Today0 - 90} }
    \cup { Row(Some(1), Some(Title_HR_Manager), Some(Loc_Warszawa), Today0 + 1,
               Some(Desc_HR_ops), Some("mid"), 1),
           Row(Some(1), NULL, NULL, Today0 - 7, NULL, NULL, 1),
           Row(Some(2), Some(Title_HR_Director), Some(Loc_Krakow), Today0 - 7,
               Some(Desc_Wellbeing_EAP), Some("director"), 1) }

InitTrend == InitOver(TrendRows, MaxTrendPostings, {Some(450)}, {NULL})

SpecTrend == InitTrend /\ [][Next]_vars

Warmth(lead_temperature) ==
    IF lead_temperature = "hot" THEN 2
    ELSE IF lead_temperature = "warm" THEN 1
    ELSE 0

(* No dimension, nor the total, nor the temperature of b is above that of a *)
NotAbove(b, a) ==
    /\ b.velocity <= a.velocity
    /\ b.seniority <= a.seniority
    /\ b.icp <= a.icp
    /\ b.content <= a.content
    /\ b.recency <= a.recency
    /\ b.final_score <= a.final_score
    /\ Warmth(b.lead_temperature) <= Warmth(a.lead_temperature)

(* C28: with the store unchanged, the result of scoring a company is in   *)
(* no dimension, nor in final_score or lead_temperature, above the result  *)
(* of scoring it at any earlier run date                                   *)
C28_LeadsOnlyCool ==
    result # NULL =>
        \A earlier \in (2 * Today0)..now :
            NotAbove(Val(result),
                     calculate_final_score(job_postings, companies, earlier,
                                           Val(result).company_id))

(* A lead that was hot on the first day and is cold a day later *)
C28_Witness ==
    /\ result # NULL
    /\ now > 2 * Today0
    /\ Val(result).lead_temperature = "cold"
    /\ calculate_final_score(job_postings, companies, 2 * Today0,
                             Val(result).company_id).lead_temperature = "hot"

Without(postings, i) ==
    [ k \in 1..(Len(postings) - 1) |->
        IF k < i THEN postings[k] ELSE postings[k + 1] ]

(* C29: the store being one without some relevant linked posting plus     *)
(* that posting, the scores of the posting's company are in no dimension   *)
(* below those over the smaller store, and the scores of every other       *)
(* company are the same                                                    *)
C29_MonotoneInPostings ==
    result # NULL =>
        \A i \in 1..Len(job_postings) :
            (job_postings[i].is_relevant = 1 /\ job_postings[i].company_id # NULL)
            => LET before == calculate_final_score(Without(job_postings, i),
                                                   companies, now,
                                                   Val(result).company_id)
               IN  IF job_postings[i].company_id = Some(Val(result).company_id)
                   THEN NotAbove(before, Val(result))
                   ELSE before = Val(result)

(* A posting that raised its company's final_score, in a store that also  *)
(* holds a posting of another company                                      *)
C29_Witness ==
    /\ result # NULL
    /\ \E i, j \in 1..Len(job_postings) :
          /\ job_postings[i].company_id = Some(Val(result).company_id)
          /\ job_postings[j].company_id # Some(Val(result).company_id)
          /\ calculate_final_score(Without(job_postings, i), companies, now,
                                   Val(result).company_id).final_score
                < Val(result).final_score

====
